---- MODULE Spec2Model ----
(***************************************************************************)
(* generate-builder-opts (cmd/generate-builder-opts/main.go): one call of  *)
(* run(opts).  A run parses the definition file, looks the requested       *)
(* struct type up, builds a function type declaration and one setter       *)
(* function per applicable field, and prints the result.                   *)
(*                                                                         *)
(* Strings are Go strings: sequences of bytes (UTF-8).  Syntax trees are   *)
(* records with a "kind" field named after the go/ast node type.           *)
(***************************************************************************)
EXTENDS Integers, Sequences, FiniteSets, TLC

VARIABLES opts, pc, astF, structType, fnTypeIdent, fnParamType, astOut, out, err

vars == <<opts, pc, astF, structType, fnTypeIdent, fnParamType, astOut, out, err>>

----------------------------------------------------------------------------
(* Bounds of the inputs. *)

\* top-level declarations in the definition file
MaxDecls == 2
\* field groups in a struct type
MaxGroups == 2
\* names in one field group ("A, B int")
MaxNames == 2

----------------------------------------------------------------------------
(* Go strings used by the program and by the inputs, as UTF-8 bytes. *)

\* "Gen"
strGen == <<71, 101, 110>>
\* "Set"
strSet == <<83, 101, 116>>
\* "FieldSetter"
strFieldSetter == <<70, 105, 101, 108, 100, 83, 101, 116, 116, 101, 114>>
\* U+FFFD, what the strings package writes for a byte that is no UTF-8
strRuneError == <<239, 191, 189>>

\* "A", "a", "_a", "é" (U+00E9 is the two bytes C3 A9), "int", "pkg", "T", "p"
nameA == <<65>>
namea == <<97>>
name_a == <<95, 97>>
nameEacute == <<195, 169>>
nameInt == <<105, 110, 116>>
namePkg == <<112, 107, 103>>
nameT == <<84>>
nameP == <<112>>

errParse == "expected 'package'"
errNoStruct == "could not find struct type in definition file"
errEmbedded == "embedded fields disallowed"
errImported == "cannot generate for fields whose type is imported"
errNoFields == "no fields in struct (aside from ignored errors)"
errPanic == "panic: bad type for struct type"
NoErr == "<nil>"

\* a nil *ast.TypeSpec, *ast.Ident, *ast.File, io.Reader
Nil == [kind |-> "nil"]

----------------------------------------------------------------------------
(* The strings and unicode packages, on the arguments main.go passes. *)

\* strings.ToUpper of a string of at most one byte (s[0:1]): ASCII letters
\* are mapped, a byte >= 0x80 alone is invalid UTF-8 and comes out as U+FFFD.
ToUpper(s) ==
    IF Len(s) = 0 THEN s
    ELSE IF s[1] >= 128 THEN strRuneError
    ELSE IF s[1] >= 97 /\ s[1] <= 122 THEN <<s[1] - 32>>
    ELSE s

\* strings.ToLower of a string of at most one byte.
ToLower(s) ==
    IF Len(s) = 0 THEN s
    ELSE IF s[1] >= 128 THEN strRuneError
    ELSE IF s[1] >= 65 /\ s[1] <= 90 THEN <<s[1] + 32>>
    ELSE s

\* unicode.IsLower(rune(b)) for a byte b: the code point U+0000..U+00FF of
\* that value is a lower-case letter (Latin-1: a-z, U+00B5, U+00DF-U+00F6,
\* U+00F8-U+00FF).
IsLower(b) ==
    \/ b >= 97 /\ b <= 122
    \/ b = 181
    \/ b >= 223 /\ b <= 246
    \/ b >= 248 /\ b <= 255

withFirstCharLower(s) ==
    IF Len(s) = 0 THEN s
    ELSE ToLower(SubSeq(s, 1, 1)) \o SubSeq(s, 2, Len(s))

withFirstCharUppper(s) ==
    IF Len(s) = 0 THEN s
    ELSE ToUpper(SubSeq(s, 1, 1)) \o SubSeq(s, 2, Len(s))

----------------------------------------------------------------------------
(* go/ast nodes. *)

\* ast.NewIdent(name): an identifier without a position
NewIdent(name) == [kind |-> "Ident", NamePos |-> 0, Name |-> name]

\* an identifier the parser read at position pos
Ident(pos, name) == [kind |-> "Ident", NamePos |-> pos, Name |-> name]

StarExpr(x) == [kind |-> "StarExpr", X |-> x]

SelectorExpr(x, sel) == [kind |-> "SelectorExpr", X |-> x, Sel |-> sel]

\* *ast.Field: the names of one field group and the type they share; an
\* embedded field has no names
Field(names, type) == [kind |-> "Field", Names |-> names, Type |-> type]

StructType(fields) == [kind |-> "StructType", Fields |-> [List |-> fields]]

TypeSpec(name, type) == [kind |-> "TypeSpec", Name |-> name, Type |-> type]

ValueSpec == [kind |-> "ValueSpec"]

GenDecl(tok, specs) == [kind |-> "GenDecl", Tok |-> tok, Specs |-> specs]

\* a function declaration of the definition file (its content is never read)
SrcFuncDecl == [kind |-> "FuncDecl"]

----------------------------------------------------------------------------
(* parser.ParseFile: the definition file's text is given by its syntax     *)
(* without positions; parsing gives every identifier its position.         *)

RECURSIVE ParseExpr(_, _)
ParseExpr(src, pos) ==
    CASE src.kind = "Ident" -> Ident(pos, src.Name)
      [] src.kind = "StarExpr" -> StarExpr(ParseExpr(src.X, pos + 1))
      [] src.kind = "SelectorExpr" ->
            SelectorExpr(Ident(pos, src.X), Ident(pos + 1, src.Sel))
      [] src.kind = "StructType" ->
            StructType([g \in 1..Len(src.Fields) |->
                Field([n \in 1..Len(src.Fields[g].Names) |->
                          Ident(pos + 10 * g + n, src.Fields[g].Names[n])],
                      ParseExpr(src.Fields[g].Type, pos + 10 * g + 7))])

ParseDecl(src, pos) ==
    CASE src.kind = "func" -> SrcFuncDecl
      [] src.kind = "var" -> GenDecl("VAR", <<ValueSpec>>)
      [] src.kind = "type" ->
            GenDecl("TYPE", [j \in 1..Len(src.Specs) |->
                TypeSpec(Ident(pos + 100 * j, src.Specs[j].Name),
                         ParseExpr(src.Specs[j].Type, pos + 100 * j))])

ParseFile(src) ==
    [kind |-> "File", Name |-> Ident(1, nameP),
     Decls |-> [i \in 1..Len(src.Decls) |-> ParseDecl(src.Decls[i], 1000 * i)]]

----------------------------------------------------------------------------
(* main.go *)

\* mutant of isRequestedStruct: the name alone decides
isRequestedStructByName(typeSpec, structName) ==
    typeSpec.Name.Name = structName

\* _, ok := typeSpec.Type.(*ast.StructType); ok && typeSpec.Name.Name == structName
isRequestedStruct(typeSpec, structName) ==
    typeSpec.Type.kind = "StructType" /\ typeSpec.Name.Name = structName

\* the loop over genDecl.Specs, from the j-th spec on
RECURSIVE findInSpecs(_, _, _)
findInSpecs(specs, j, structName) ==
    IF j > Len(specs) THEN <<Nil, FALSE>>
    ELSE IF specs[j].kind # "TypeSpec" THEN findInSpecs(specs, j + 1, structName)
    ELSE IF isRequestedStruct(specs[j], structName) THEN <<specs[j], TRUE>>
    ELSE findInSpecs(specs, j + 1, structName)

\* the loop over f.Decls, from the i-th declaration on
RECURSIVE findInDecls(_, _, _)
findInDecls(decls, i, structName) ==
    IF i > Len(decls) THEN <<Nil, FALSE>>
    ELSE IF decls[i].kind # "GenDecl" THEN findInDecls(decls, i + 1, structName)
    ELSE IF decls[i].Tok # "TYPE" THEN findInDecls(decls, i + 1, structName)
    ELSE LET r == findInSpecs(decls[i].Specs, 1, structName)
         IN  IF r[2] THEN r ELSE findInDecls(decls, i + 1, structName)

findRequestedStructType(f, structName) == findInDecls(f.Decls, 1, structName)

funcTypeIdent(structName, exportFnType) ==
    LET casedStructName == IF exportFnType THEN withFirstCharUppper(structName)
                           ELSE withFirstCharLower(structName)
    IN  NewIdent(casedStructName \o strFieldSetter)

FuncType(params, results) ==
    [kind |-> "FuncType", Params |-> [List |-> params], Results |-> results]

\* the declarations of astOut after withTypeDef
withTypeDef(decls, fnIdent, paramType) ==
    LET fnType == FuncType(<<Field(<<>>, paramType)>>, Nil)
        typeSpec == TypeSpec(fnIdent, fnType)
    IN  Append(decls, GenDecl("TYPE", <<typeSpec>>))

getInnerFn(structTypeIdent, fieldIdent, outerParamIdent, innerParamType) ==
    LET paramIdent == NewIdent(withFirstCharLower(structTypeIdent.Name) \o strGen)
    IN  [kind |-> "FuncLit",
         Type |-> FuncType(<<Field(<<paramIdent>>, innerParamType)>>, Nil),
         Body |-> [kind |-> "BlockStmt", List |-> <<
             [kind |-> "AssignStmt",
              Lhs |-> <<SelectorExpr(paramIdent, fieldIdent)>>,
              Tok |-> "=",
              Rhs |-> <<outerParamIdent>>] >>]]

\* ast.Inspect(field, ...) of withFuncs: some node of the field is a
\* *ast.SelectorExpr
RECURSIVE containsSelectorExpr(_)
containsSelectorExpr(n) ==
    CASE n.kind = "SelectorExpr" -> TRUE
      [] n.kind = "Ident" -> FALSE
      [] n.kind = "StarExpr" -> containsSelectorExpr(n.X)
      [] n.kind = "Field" ->
            \/ \E i \in 1..Len(n.Names) : containsSelectorExpr(n.Names[i])
            \/ containsSelectorExpr(n.Type)

\* mutant of inSkipStructFields: the case of the first character is ignored
inSkipStructFieldsAnyCase(skipStructFields, name) ==
    \E k \in skipStructFields : withFirstCharLower(k) = withFirstCharLower(name)

\* _, ok := skipStructFields[fieldName.Name]
inSkipStructFields(skipStructFields, name) == name \in skipStructFields

\* unicode.IsLower(rune(fieldName.Name[0])) && !generateForUnexportedFields
skipUnexported(name, generateForUnexportedFields) ==
    IsLower(name[1]) /\ ~generateForUnexportedFields

\* the *ast.FuncDecl built for one field name
newFunc(sType, field, fieldName, fnIdent, paramType) ==
    LET outerParamIdent == NewIdent(withFirstCharLower(fieldName.Name) \o strGen)
    IN  [kind |-> "FuncDecl",
         Name |-> NewIdent(strSet \o withFirstCharUppper(fieldName.Name)),
         Type |-> FuncType(<<Field(<<outerParamIdent>>, field.Type)>>,
                           [List |-> <<Field(<<>>, fnIdent)>>]),
         Body |-> [kind |-> "BlockStmt", List |-> <<
             [kind |-> "ReturnStmt",
              Results |-> <<getInnerFn(sType.Name, fieldName,
                                       outerParamIdent, paramType)>>] >>]]

\* mutant of appendDecl: the new declaration goes right behind the first one
appendDeclBehindFirst(decls, decl) ==
    <<Head(decls), decl>> \o Tail(decls)

\* astOut.Decls = append(astOut.Decls, newFunc)
appendDecl(decls, decl) == Append(decls, decl)

\* the loop over field.Names, from the n-th name on; acc holds astOut.Decls
\* and numFnsAdded
RECURSIVE namesLoop(_, _, _, _, _, _, _, _)
namesLoop(acc, sType, field, n, fnIdent, paramType, generateForUnexportedFields, skipStructFields) ==
    IF n > Len(field.Names) THEN acc
    ELSE LET fieldName == field.Names[n]
             rest(a) == namesLoop(a, sType, field, n + 1, fnIdent, paramType,
                                  generateForUnexportedFields, skipStructFields)
         IN  IF inSkipStructFields(skipStructFields, fieldName.Name) THEN rest(acc)
             ELSE IF skipUnexported(fieldName.Name, generateForUnexportedFields)
                  THEN rest(acc)
             ELSE rest([Decls |-> appendDecl(acc.Decls,
                                   newFunc(sType, field, fieldName, fnIdent, paramType)),
                        numFnsAdded |-> acc.numFnsAdded + 1])

\* mutant of unsupported: the imported-type check comes first
unsupportedImportedFirst(field) ==
    IF containsSelectorExpr(field) THEN errImported
    ELSE IF Len(field.Names) = 0 THEN errEmbedded
    ELSE NoErr

\* the two checks of a field group, in their order: the error of an embedded
\* field, of a field whose type is imported, or none
unsupported(field) ==
    IF Len(field.Names) = 0 THEN errEmbedded
    ELSE IF containsSelectorExpr(field) THEN errImported
    ELSE NoErr

\* mutant of checkNumFnsAdded: an empty result is let through
checkNumFnsAddedNever(numFnsAdded) == NoErr

\* the check of numFnsAdded after the loop
checkNumFnsAdded(numFnsAdded) ==
    IF numFnsAdded = 0 THEN errNoFields ELSE NoErr

\* the loop over structTypeTyped.Fields.List, from the g-th group on, and the
\* check of numFnsAdded after it: astOut.Decls and the error returned
RECURSIVE fieldsLoop(_, _, _, _, _, _, _, _)
fieldsLoop(acc, sType, g, fnIdent, paramType, generateForUnexportedFields, ignoreUnsupported, skipStructFields) ==
    LET list == sType.Type.Fields.List
        next(a) == fieldsLoop(a, sType, g + 1, fnIdent, paramType,
                              generateForUnexportedFields, ignoreUnsupported,
                              skipStructFields)
    IN  IF g > Len(list)
        THEN [Decls |-> acc.Decls, err |-> checkNumFnsAdded(acc.numFnsAdded)]
        ELSE IF unsupported(list[g]) # NoErr
             THEN IF ignoreUnsupported THEN next(acc)
                  ELSE [Decls |-> acc.Decls, err |-> unsupported(list[g])]
        ELSE next(namesLoop(acc, sType, list[g], 1, fnIdent, paramType,
                            generateForUnexportedFields, skipStructFields))

\* astOut.Decls after withFuncs, and the error it returns
withFuncs(decls, sType, fnIdent, paramType, generateForUnexportedFields, ignoreUnsupported, skipStructFields) ==
    IF sType.Type.kind # "StructType" THEN [Decls |-> decls, err |-> errPanic]
    ELSE
    fieldsLoop([Decls |-> decls, numFnsAdded |-> 0], sType, 1, fnIdent, paramType,
               generateForUnexportedFields, ignoreUnsupported, skipStructFields)

----------------------------------------------------------------------------
(* printer.Fprint: the text of a node.  The text holds the names of the   *)
(* identifiers, not their positions, and not which *ast.Ident they were.  *)

RECURSIVE Fprint(_)
Fprint(n) ==
    CASE n.kind = "nil" -> Nil
      [] n.kind = "Ident" -> [kind |-> "Ident", Name |-> n.Name]
      [] n.kind = "StarExpr" -> StarExpr(Fprint(n.X))
      [] n.kind = "SelectorExpr" -> SelectorExpr(Fprint(n.X), Fprint(n.Sel))
      [] n.kind = "Field" ->
            Field([i \in 1..Len(n.Names) |-> Fprint(n.Names[i])], Fprint(n.Type))
      [] n.kind = "FuncType" ->
            [kind |-> "FuncType",
             Params |-> [List |-> [i \in 1..Len(n.Params.List) |->
                                      Fprint(n.Params.List[i])]],
             Results |-> IF n.Results = Nil THEN Nil
                         ELSE [List |-> [i \in 1..Len(n.Results.List) |->
                                            Fprint(n.Results.List[i])]]]
      [] n.kind = "TypeSpec" -> TypeSpec(Fprint(n.Name), Fprint(n.Type))
      [] n.kind = "GenDecl" ->
            GenDecl(n.Tok, [i \in 1..Len(n.Specs) |-> Fprint(n.Specs[i])])
      [] n.kind = "FuncDecl" ->
            [kind |-> "FuncDecl", Name |-> Fprint(n.Name), Type |-> Fprint(n.Type),
             Body |-> Fprint(n.Body)]
      [] n.kind = "FuncLit" ->
            [kind |-> "FuncLit", Type |-> Fprint(n.Type), Body |-> Fprint(n.Body)]
      [] n.kind = "BlockStmt" ->
            [kind |-> "BlockStmt", List |-> [i \in 1..Len(n.List) |-> Fprint(n.List[i])]]
      [] n.kind = "ReturnStmt" ->
            [kind |-> "ReturnStmt",
             Results |-> [i \in 1..Len(n.Results) |-> Fprint(n.Results[i])]]
      [] n.kind = "AssignStmt" ->
            [kind |-> "AssignStmt", Lhs |-> [i \in 1..Len(n.Lhs) |-> Fprint(n.Lhs[i])],
             Tok |-> n.Tok, Rhs |-> [i \in 1..Len(n.Rhs) |-> Fprint(n.Rhs[i])]]
      [] n.kind = "File" ->
            [kind |-> "File", Name |-> Fprint(n.Name),
             Decls |-> [i \in 1..Len(n.Decls) |-> Fprint(n.Decls[i])]]

----------------------------------------------------------------------------
(* run(o) as a function of the options: the reader and the error returned. *)

run(o) ==
    IF ~o.definitionFile.ok THEN <<Nil, errParse>>
    ELSE LET f == ParseFile(o.definitionFile)
             found == findRequestedStructType(f, o.structTypeName)
         IN  IF ~found[2] THEN <<Nil, errNoStruct>>
             ELSE LET ident == funcTypeIdent(found[1].Name.Name, o.exportFnType)
                      paramType == StarExpr(found[1].Name)
                      r == withFuncs(withTypeDef(<<>>, ident, paramType), found[1],
                                     ident, paramType, o.generateForUnexportedFields,
                                     o.ignoreUnsupported, o.skipStructFields)
                  IN  IF r.err # NoErr THEN <<Nil, r.err>>
                      ELSE <<Fprint([kind |-> "File", Name |-> f.Name,
                                     Decls |-> r.Decls]), NoErr>>

----------------------------------------------------------------------------
(* The inputs of a run: the options and the text of the definition file. *)

SeqsUpTo(S, n) == UNION {[1..k -> S] : k \in 0..n}

\* int, *int, pkg.T, *pkg.T
SrcInt == [kind |-> "Ident", Name |-> nameInt]
SrcPkgT == [kind |-> "SelectorExpr", X |-> namePkg, Sel |-> nameT]
FieldTypes == {SrcInt, StarExpr(SrcInt), SrcPkgT, StarExpr(SrcPkgT)}

FieldNames == {nameA, namea, name_a}
TypeNames == {nameA, namea, nameEacute}
SkipNames == {nameA}

\* the field names of a struct body, in order
RECURSIVE NamesOf(_)
NamesOf(fields) ==
    IF Len(fields) = 0 THEN <<>> ELSE fields[1].Names \o NamesOf(Tail(fields))

Distinct(seq) == \A i, j \in 1..Len(seq) : seq[i] = seq[j] => i = j

\* field groups of at most n names, no name twice
FieldGroups(n) == {[Names |-> ns, Type |-> t] :
                      ns \in {q \in SeqsUpTo(FieldNames, n) : Distinct(q)},
                      t \in FieldTypes}

\* struct bodies of at most g field groups and n field names
RECURSIVE BodiesOf(_, _)
BodiesOf(g, n) ==
    IF g = 0 THEN {<<>>}
    ELSE {<<>>} \cup UNION {{<<f>> \o b : b \in BodiesOf(g - 1, n - Len(f.Names))} :
                               f \in FieldGroups(n)}

\* struct bodies of at most MaxGroups field groups and MaxNames field names;
\* the names are pairwise distinct, as the language requires
StructBodies == {b \in BodiesOf(MaxGroups, MaxNames) : Distinct(NamesOf(b))}

SrcStruct(fields) == [kind |-> "StructType", Fields |-> fields]
SrcTypeDecl(specs) == [kind |-> "type", Specs |-> specs]

\* files that hold one declaration, of the struct type A
StructFiles == {[ok |-> TRUE,
                 Decls |-> <<SrcTypeDecl(<<[Name |-> nameA, Type |-> SrcStruct(b)]>>)>>] :
                    b \in StructBodies}

\* files of several declarations: functions, variables, and type declarations
\* of one or two specs, each a defined type or a struct; a file holds at most
\* MaxDecls specs
SmallBody == <<[Names |-> <<nameA>>, Type |-> SrcInt]>>
SrcTypeSpecs == {[Name |-> n, Type |-> t] : n \in TypeNames,
                                           t \in {SrcInt, SrcStruct(SmallBody)}}
SrcDecls == {[kind |-> "func"], [kind |-> "var"]}
            \cup {SrcTypeDecl(<<sp>>) : sp \in SrcTypeSpecs}
            \cup {SrcTypeDecl(<<s1, s2>>) : s1 \in SrcTypeSpecs, s2 \in SrcTypeSpecs}

RECURSIVE NumSpecs(_)
NumSpecs(ds) ==
    IF Len(ds) = 0 THEN 0
    ELSE (IF ds[1].kind = "type" THEN Len(ds[1].Specs) ELSE 1) + NumSpecs(Tail(ds))

DeclFiles == {[ok |-> TRUE, Decls |-> ds] :
                 ds \in {d \in SeqsUpTo(SrcDecls, MaxDecls) : NumSpecs(d) <= MaxDecls}}

\* a file that does not parse
BadFile == [ok |-> FALSE, Decls |-> <<>>]

\* the options of a run: any flags, with a file of one struct A that is asked
\* for, or with a file of several declarations and either name asked for
FlagOpts == [definitionFile : StructFiles \cup {BadFile},
             structTypeName : {nameA},
             exportFnType : BOOLEAN,
             generateForUnexportedFields : BOOLEAN,
             ignoreUnsupported : BOOLEAN,
             skipStructFields : SUBSET SkipNames]
            \cup
            [definitionFile : DeclFiles,
             structTypeName : TypeNames,
             exportFnType : BOOLEAN,
             generateForUnexportedFields : BOOLEAN,
             ignoreUnsupported : BOOLEAN,
             skipStructFields : SUBSET SkipNames]

----------------------------------------------------------------------------
(* run(opts), step by step. *)

Init ==
    /\ opts \in FlagOpts
    /\ pc = "ParseFile"
    /\ astF = Nil
    /\ structType = Nil
    /\ fnTypeIdent = Nil
    /\ fnParamType = Nil
    /\ astOut = Nil
    /\ out = Nil
    /\ err = NoErr

\* return nil, err
Fail(e) ==
    /\ pc' = "done"
    /\ out' = Nil
    /\ err' = e

\* lines 121-125
ParseFileOk ==
    /\ pc = "ParseFile"
    /\ opts.definitionFile.ok
    /\ astF' = ParseFile(opts.definitionFile)
    /\ pc' = "findRequestedStructType"
    /\ UNCHANGED <<opts, structType, fnTypeIdent, fnParamType, astOut, out, err>>

ParseFileErr ==
    /\ pc = "ParseFile"
    /\ ~opts.definitionFile.ok
    /\ Fail(errParse)
    /\ UNCHANGED <<opts, astF, structType, fnTypeIdent, fnParamType, astOut>>

\* lines 128-136
FindStructOk ==
    /\ pc = "findRequestedStructType"
    /\ LET r == findRequestedStructType(astF, opts.structTypeName)
       IN  /\ r[2]
           /\ structType' = r[1]
           /\ fnTypeIdent' = funcTypeIdent(r[1].Name.Name, opts.exportFnType)
           /\ fnParamType' = StarExpr(r[1].Name)
    /\ pc' = "withTypeDef"
    /\ UNCHANGED <<opts, astF, astOut, out, err>>

FindStructErr ==
    /\ pc = "findRequestedStructType"
    /\ ~findRequestedStructType(astF, opts.structTypeName)[2]
    /\ Fail(errNoStruct)
    /\ UNCHANGED <<opts, astF, structType, fnTypeIdent, fnParamType, astOut>>

\* lines 139-142
WithTypeDef ==
    /\ pc = "withTypeDef"
    /\ astOut' = [kind |-> "File", Name |-> astF.Name,
                  Decls |-> withTypeDef(<<>>, fnTypeIdent, fnParamType)]
    /\ pc' = "withFuncs"
    /\ UNCHANGED <<opts, astF, structType, fnTypeIdent, fnParamType, out, err>>

\* the result of the call of lines 145-152
WithFuncsResult ==
    withFuncs(astOut.Decls, structType, fnTypeIdent, fnParamType,
              opts.generateForUnexportedFields, opts.ignoreUnsupported,
              opts.skipStructFields)

\* lines 145-154
WithFuncsOk ==
    /\ pc = "withFuncs"
    /\ WithFuncsResult.err = NoErr
    /\ astOut' = [astOut EXCEPT !.Decls = WithFuncsResult.Decls]
    /\ pc' = "Fprint"
    /\ UNCHANGED <<opts, astF, structType, fnTypeIdent, fnParamType, out, err>>

WithFuncsErr ==
    /\ pc = "withFuncs"
    /\ WithFuncsResult.err # NoErr
    /\ astOut' = [astOut EXCEPT !.Decls = WithFuncsResult.Decls]
    /\ Fail(WithFuncsResult.err)
    /\ UNCHANGED <<opts, astF, structType, fnTypeIdent, fnParamType>>

\* lines 157-162
PrintOut ==
    /\ pc = "Fprint"
    /\ out' = Fprint(astOut)
    /\ pc' = "done"
    /\ UNCHANGED <<opts, astF, structType, fnTypeIdent, fnParamType, astOut, err>>

Next ==
    \/ ParseFileOk
    \/ ParseFileErr
    \/ FindStructOk
    \/ FindStructErr
    \/ WithTypeDef
    \/ WithFuncsOk
    \/ WithFuncsErr
    \/ PrintOut

Spec == Init /\ [][Next]_vars

----------------------------------------------------------------------------
(* What the claims speak of. *)

Done == pc = "done"
Succeeded == pc = "done" /\ err = NoErr

\* the field groups of the located struct
Groups == structType.Type.Fields.List

\* a type expression holds a qualified name pkg.Name somewhere
RECURSIVE HasQualifiedName(_)
HasQualifiedName(t) ==
    CASE t.kind = "SelectorExpr" -> TRUE
      [] t.kind = "StarExpr" -> HasQualifiedName(t.X)
      [] OTHER -> FALSE

IsEmbedded(g) == Len(Groups[g].Names) = 0
IsImported(g) == HasQualifiedName(Groups[g].Type)
Offending == {g \in 1..Len(Groups) : IsEmbedded(g) \/ IsImported(g)}
Min(S) == CHOOSE x \in S : \A y \in S : x <= y

\* the setter declarations appended to astOut so far
NumSetters == Cardinality({i \in 1..Len(astOut.Decls) : astOut.Decls[i].kind = "FuncDecl"})

----------------------------------------------------------------------------
(* C4 *)

\* the specs of the i-th top-level declaration that findRequestedStructType reads
SpecsAt(i) ==
    IF astF.Decls[i].kind = "GenDecl" /\ astF.Decls[i].Tok = "TYPE"
    THEN astF.Decls[i].Specs ELSE <<>>
SpecPositions == UNION {{<<i, j>> : j \in 1..Len(SpecsAt(i))} : i \in 1..Len(astF.Decls)}
SpecBefore(p, q) == p[1] < q[1] \/ (p[1] = q[1] /\ p[2] < q[2])
NamedAsRequested(p) == SpecsAt(p[1])[p[2]].Name.Name = opts.structTypeName
IsStructSpec(p) == SpecsAt(p[1])[p[2]].Type.kind = "StructType"

\* C4: once the search has run, the located type is the first top-level type
\* declaration, in file order, that has the requested name and is a struct;
\* when there is none (also when the name is there but is no struct) the run
\* has failed with "could not find struct type" and without output.
C4_TypeLocator ==
    (astF # Nil /\ pc # "findRequestedStructType") =>
        IF \E p \in SpecPositions : NamedAsRequested(p) /\ IsStructSpec(p)
        THEN \E p \in SpecPositions :
                /\ NamedAsRequested(p) /\ IsStructSpec(p)
                /\ \A q \in SpecPositions :
                      SpecBefore(q, p) => ~(NamedAsRequested(q) /\ IsStructSpec(q))
                /\ structType = SpecsAt(p[1])[p[2]]
        ELSE structType = Nil /\ pc = "done" /\ err = errNoStruct /\ out = Nil

\* a struct was located although a declaration of the same name that is no
\* struct stands before it
C4_Witness ==
    /\ structType # Nil
    /\ \E p, q \in SpecPositions :
          /\ structType = SpecsAt(p[1])[p[2]]
          /\ SpecBefore(q, p)
          /\ NamedAsRequested(q) /\ ~IsStructSpec(q)

\* the search failed on a file that declares the requested name, not as a struct
C4_WitnessNotStruct ==
    /\ pc = "done" /\ err = errNoStruct
    /\ \E q \in SpecPositions : NamedAsRequested(q) /\ ~IsStructSpec(q)

----------------------------------------------------------------------------
(* C3 *)

\* C3: with ignoreUnsupported=false a run that located the struct ends with
\* an unsupported-field error, and without output, exactly when some field
\* group is embedded or has a qualified name in its type; the error is that of
\* the first such group, "embedded" before "imported" within the group.
C3_UnsupportedRejection ==
    (Done /\ structType # Nil /\ ~opts.ignoreUnsupported) =>
        IF Offending = {}
        THEN err \notin {errEmbedded, errImported}
        ELSE /\ err = IF IsEmbedded(Min(Offending)) THEN errEmbedded ELSE errImported
             /\ out = Nil

\* a run rejected for a qualified name behind a pointer, after a setter was
\* built for an earlier field, the group's own name being in the skip-set
C3_Witness ==
    /\ Done /\ ~opts.ignoreUnsupported /\ structType # Nil
    /\ err = errImported
    /\ NumSetters >= 1
    /\ \E g \in Offending :
          /\ Groups[g].Type.kind = "StarExpr"
          /\ \E n \in 1..Len(Groups[g].Names) :
                Groups[g].Names[n].Name \in opts.skipStructFields

----------------------------------------------------------------------------
(* C2 *)

\* a group makes the run fail: it is unsupported and not ignored
Rejected == ~opts.ignoreUnsupported /\ Offending # {}

\* C2: when withFuncs has run and no group was rejected, the run fails with
\* "no fields in struct" and without output exactly when no setter was
\* generated; the function type declaration appended before is not returned.
C2_ZeroOutputLaw ==
    (Done /\ astOut # Nil /\ ~Rejected) =>
        /\ NumSetters = 0 => (err = errNoFields /\ out = Nil)
        /\ NumSetters >= 1 => err # errNoFields

\* a run that fails with "no fields": the struct has a field in the skip-set
\* and an ignored unsupported group, and astOut holds the function type alone
C2_Witness ==
    /\ Done /\ err = errNoFields /\ out = Nil
    /\ Len(astOut.Decls) = 1 /\ astOut.Decls[1].kind = "GenDecl"
    /\ Offending # {}
    /\ \E g \in 1..Len(Groups) : \E n \in 1..Len(Groups[g].Names) :
          Groups[g].Names[n].Name \in opts.skipStructFields

----------------------------------------------------------------------------
(* The printed output. *)

\* the field names of the located struct, in declaration order
RECURSIVE NamesFrom(_)
NamesFrom(g) ==
    IF g > Len(Groups) THEN <<>>
    ELSE [n \in 1..Len(Groups[g].Names) |-> Groups[g].Names[n].Name] \o NamesFrom(g + 1)
StructNames == NamesFrom(1)
StructNameSet == {StructNames[i] : i \in 1..Len(StructNames)}
IndexOf(x) == CHOOSE i \in 1..Len(StructNames) : StructNames[i] = x

\* the group a field name stands in
GroupOf(x) == CHOOSE g \in 1..Len(Groups) :
                 \E n \in 1..Len(Groups[g].Names) : Groups[g].Names[n].Name = x

\* the printed declarations that are functions
IsFunc(d) == d.kind = "FuncDecl"
Setters == {i \in 1..Len(out.Decls) : IsFunc(out.Decls[i])}

\* the parts of a printed setter: func Name(Param Type) Result {
\*     return func(InnerParam InnerType) { LhsX.LhsSel = Rhs } }
InnerFn(d) == d.Body.List[1].Results[1]
Assign(d) == InnerFn(d).Body.List[1]
FieldOf(d) == Assign(d).Lhs[1].Sel.Name
SettersOf(x) == {i \in Setters : FieldOf(out.Decls[i]) = x}

----------------------------------------------------------------------------
(* C7 *)

\* C7: a successful output is one function type declaration followed by
\* function declarations only, each the setter of a field of the struct, and
\* the setters stand in the order of their fields in the struct.
C7_ShapeAndOrder ==
    Succeeded =>
        /\ Len(out.Decls) >= 1
        /\ out.Decls[1].kind = "GenDecl" /\ out.Decls[1].Tok = "TYPE"
        /\ Len(out.Decls[1].Specs) = 1
        /\ out.Decls[1].Specs[1].Type.kind = "FuncType"
        /\ \A i \in 2..Len(out.Decls) :
              IsFunc(out.Decls[i]) /\ FieldOf(out.Decls[i]) \in StructNameSet
        /\ \A i, j \in 2..Len(out.Decls) :
              i < j => IndexOf(FieldOf(out.Decls[i])) < IndexOf(FieldOf(out.Decls[j]))

\* an output with the setters of two fields of different groups
C7_Witness ==
    /\ Succeeded
    /\ Len(out.Decls) = 3
    /\ Len(Groups) = 2
    /\ GroupOf(FieldOf(out.Decls[2])) # GroupOf(FieldOf(out.Decls[3]))

\* an output with the setters of two names of one group
C7_WitnessSharedGroup ==
    /\ Succeeded
    /\ Len(out.Decls) = 3
    /\ GroupOf(FieldOf(out.Decls[2])) = GroupOf(FieldOf(out.Decls[3]))

----------------------------------------------------------------------------
(* C9 *)

\* names one may add to the skip-set
SkipCandidates == FieldNames \cup {nameInt, nameEacute}
AbsentNames == IF structType = Nil THEN SkipCandidates
               ELSE SkipCandidates \ StructNameSet

\* C9: the run gives what it would give (output and error alike) with a
\* name added to the skip-set that names no field of the struct.
C9_SkipAbsentName ==
    Done => \A n \in AbsentNames :
               run([opts EXCEPT !.skipStructFields = @ \cup {n}]) = <<out, err>>

\* a successful run with a setter for A, where a (not a field, not skipped)
\* can be added to the skip-set
C9_Witness ==
    /\ Succeeded
    /\ namea \in AbsentNames /\ namea \notin opts.skipStructFields
    /\ SettersOf(nameA) # {}

----------------------------------------------------------------------------
(* The first character of a name, as the language reads it: a name is      *)
(* UTF-8, and its first character is one byte (ASCII) or, for U+0080 to    *)
(* U+00FF, the two bytes C2/C3 xx.                                         *)

\* the name with its first character upper-cased: a-z, and U+00E0..U+00FE
\* (but U+00F7) which are C3 A0..C3 BE
UpperFirst(name) ==
    IF name[1] >= 97 /\ name[1] <= 122 THEN <<name[1] - 32>> \o Tail(name)
    ELSE IF name[1] = 195 /\ name[2] >= 160 /\ name[2] <= 190 /\ name[2] # 183
         THEN <<195, name[2] - 32>> \o Tail(Tail(name))
    ELSE name

\* the name with its first character lower-cased
LowerFirst(name) ==
    IF name[1] >= 65 /\ name[1] <= 90 THEN <<name[1] + 32>> \o Tail(name)
    ELSE IF name[1] = 195 /\ name[2] >= 128 /\ name[2] <= 158 /\ name[2] # 151
         THEN <<195, name[2] + 32>> \o Tail(Tail(name))
    ELSE name

\* the name is exported: its first character is an upper-case letter
IsExported(name) == LowerFirst(name) # name

----------------------------------------------------------------------------
(* C1, C6 *)

\* the field name is kept by the embedded, imported-type and skip-set rules
Survives(x) ==
    /\ ~IsEmbedded(GroupOf(x))
    /\ ~IsImported(GroupOf(x))
    /\ x \notin opts.skipStructFields

\* the field name is kept by the unexported-field rule
KeptByUnexportedRule(x) == IsExported(x) \/ opts.generateForUnexportedFields

\* C1: a successful output holds exactly one setter for every field name that
\* none of the four rules excludes, no setter for an excluded field name, and
\* no other function.
C1_Completeness ==
    Succeeded =>
        /\ \A x \in StructNameSet :
              Cardinality(SettersOf(x)) =
                  IF Survives(x) /\ KeptByUnexportedRule(x) THEN 1 ELSE 0
        /\ \A i \in Setters : FieldOf(out.Decls[i]) \in StructNameSet

\* C6: in a successful output a field name that survives the other rules and
\* is unexported (its first character is no upper-case letter, "_" included)
\* has a setter exactly when generateForUnexportedFields is set.
C6_UnexportedRule ==
    Succeeded =>
        \A x \in StructNameSet :
            (Survives(x) /\ ~IsExported(x)) =>
                (SettersOf(x) # {} <=> opts.generateForUnexportedFields)

----------------------------------------------------------------------------
(* C5, C10 *)

\* the name a printed top-level declaration declares
DeclName(d) == IF IsFunc(d) THEN d.Name.Name ELSE d.Specs[1].Name.Name

\* C5: in a successful output every setter is named "Set" and the field name
\* with its first character upper-cased, and the function type is named by
\* the struct name, its first character upper-cased when exportFnType is set
\* and lower-cased when not, and "FieldSetter".
C5_Naming ==
    Succeeded =>
        /\ \A i \in Setters :
              out.Decls[i].Name.Name = strSet \o UpperFirst(FieldOf(out.Decls[i]))
        /\ DeclName(out.Decls[1]) =
              (IF opts.exportFnType THEN UpperFirst(structType.Name.Name)
               ELSE LowerFirst(structType.Name.Name)) \o strFieldSetter

\* C10: in a successful output no two top-level declarations have one name.
C10_DistinctNames ==
    Succeeded =>
        \A i, j \in 1..Len(out.Decls) :
            DeclName(out.Decls[i]) = DeclName(out.Decls[j]) => i = j

----------------------------------------------------------------------------
(* C8 *)

\* the printed type expression of the group of field x
PrintedTypeOf(x) == Fprint(Groups[GroupOf(x)].Type)

PrintedIdent(name) == [kind |-> "Ident", Name |-> name]

\* C8: every printed setter of a field F of struct S has one parameter, named
\* by F with its first character lower-cased and "Gen", of F's type; it
\* returns the function type; its body is one return of a function literal
\* with one parameter, named by S with its first character lower-cased and
\* "Gen", of type *S, whose one statement assigns to field F of that
\* parameter the parameter of the setter (the name on the right-hand side is
\* the setter's parameter, and within the literal it still denotes it).
C8_SetterStructure ==
    Succeeded =>
        \A i \in Setters :
            LET d == out.Decls[i]
                F == FieldOf(d)
                S == structType.Name.Name
                outer == LowerFirst(F) \o strGen
                inner == LowerFirst(S) \o strGen
            IN  /\ d.Type.Params.List = <<Field(<<PrintedIdent(outer)>>, PrintedTypeOf(F))>>
                /\ d.Type.Results.List = <<Field(<<>>, out.Decls[1].Specs[1].Name)>>
                /\ Len(d.Body.List) = 1 /\ d.Body.List[1].kind = "ReturnStmt"
                /\ Len(d.Body.List[1].Results) = 1 /\ InnerFn(d).kind = "FuncLit"
                /\ InnerFn(d).Type.Params.List =
                      <<Field(<<PrintedIdent(inner)>>, StarExpr(PrintedIdent(S)))>>
                /\ Len(InnerFn(d).Body.List) = 1 /\ Assign(d).kind = "AssignStmt"
                /\ Assign(d).Lhs = <<SelectorExpr(PrintedIdent(inner), PrintedIdent(F))>>
                /\ Assign(d).Rhs = <<PrintedIdent(outer)>>
                /\ outer # inner

----------------------------------------------------------------------------
(* How far C1, C5, C6, C8 and C10 hold: each is an invariant of Spec.      *)

\* the steps of run and the function run agree
RunAgreesWithSteps == Done => run(opts) = <<out, err>>

\* the unexported-field rule as withFuncs tests it
KeptByCodeTest(x) == ~IsLower(x[1]) \/ opts.generateForUnexportedFields

\* completeness, with the unexported-field rule read as the code's test
CompletenessByCodeTest ==
    Succeeded =>
        /\ \A x \in StructNameSet :
              Cardinality(SettersOf(x)) =
                  IF Survives(x) /\ KeptByCodeTest(x) THEN 1 ELSE 0
        /\ \A i \in Setters : FieldOf(out.Decls[i]) \in StructNameSet

\* the unexported-field rule, for the names that begin with a letter
UnexportedRuleForLetters ==
    Succeeded =>
        \A x \in StructNameSet :
            (Survives(x) /\ ~IsExported(x) /\ x[1] # 95) =>
                (SettersOf(x) # {} <=> opts.generateForUnexportedFields)

\* the naming, for struct names that begin with an ASCII character
NamingOfAsciiNames ==
    (Succeeded /\ structType.Name.Name[1] < 128) => C5_Naming

\* the names are distinct unless A and a both have a setter
DistinctNamesButForCase ==
    (Succeeded /\ ~(SettersOf(nameA) # {} /\ SettersOf(namea) # {})) => C10_DistinctNames

\* the structure of the setters, for ASCII struct names whose parameter name
\* differs from the field's
StructureOfAsciiNames ==
    (/\ Succeeded
     /\ structType.Name.Name[1] < 128
     /\ \A x \in StructNameSet : LowerFirst(x) # LowerFirst(structType.Name.Name))
        => C8_SetterStructure

----------------------------------------------------------------------------
(* C11 *)

\* the name of the setter's own parameter, of the inner function's
\* parameter, and the name on the right-hand side of the assignment, as
\* they stand in the printed output
OuterParamName(d) == d.Type.Params.List[1].Names[1].Name
InnerParamName(d) == InnerFn(d).Type.Params.List[1].Names[1].Name
RhsName(d) == Assign(d).Rhs[1].Name

\* the identifier a name resolves to inside the inner function's body: the
\* innermost declaration of that name, the inner parameter before the
\* setter's
ResolvesTo(d, n) == IF n = InnerParamName(d) THEN "inner" ELSE IF n = OuterParamName(d) THEN "outer" ELSE "package"

\* C11: in every generated setter the inner function's parameter is named
\* otherwise than the setter's own parameter, so that the right-hand side of
\* the assignment denotes the setter's argument and is not shadowed by the
\* inner struct-pointer parameter, whatever the struct name and field name.
C11_NoShadowing ==
    Succeeded =>
        \A i \in Setters :
            /\ InnerParamName(out.Decls[i]) # OuterParamName(out.Decls[i])
            /\ ResolvesTo(out.Decls[i], RhsName(out.Decls[i])) = "outer"

\* the right-hand side is always written with the setter's parameter name
RhsIsOuterName ==
    Succeeded => \A i \in Setters : RhsName(out.Decls[i]) = OuterParamName(out.Decls[i])

\* no shadowing as long as no field name equals the struct name up to the
\* case of its first byte
NoShadowingButForCase ==
    (/\ Succeeded
     /\ \A x \in StructNameSet :
            withFirstCharLower(x) # withFirstCharLower(structType.Name.Name))
        => C11_NoShadowing

\* a setter of field A, or of field a, of struct A is generated, and its
\* two parameters bear the same name
ShadowingReached ==
    /\ Succeeded
    /\ \E i \in Setters :
           /\ FieldOf(out.Decls[i]) \in {nameA, namea}
           /\ InnerParamName(out.Decls[i]) = OuterParamName(out.Decls[i])

====
